---- MODULE Spec2Model ----
(***************************************************************************)
(* TeamMakerV2, src/src/App.tsx: the roster organizer's state store, its   *)
(* cookie persistence, the roster projector and the interaction handlers.  *)
(*                                                                         *)
(* Text.  A JavaScript string is a sequence of lexemes.  A lexeme is one   *)
(* reserved character (" ", ";", "=", a quote, ...), one escape sequence   *)
(* ("%3B", a backslash-quote) or one run of characters that                *)
(* encodeURIComponent leaves alone ("alpha", "ff7b7b", "u14").  The value  *)
(* null is the reserved sequence null, which is no text of the program.    *)
(***************************************************************************)
EXTENDS Integers, Sequences, FiniteSets, Bags, TLC

\* ------------------------------------------------------------------ bounds
\* Seed players the user drags, renames and removes, and teams the user
\* renames: the first MaxTouch of each list.
MaxTouch == 1
\* Players and teams the user creates.
MaxCreated == 1
\* Page loads after the first.
MaxReloads == 1
\* Longest collection given to the codec and to the projector.
MaxLen == 2

\* ------------------------------------------------------------------- text
null == <<"<null>">>

Range(s) == {s[i] : i \in 1..Len(s)}

\* Array.prototype.map, and the map of a string's lexemes.
map(s, f(_)) == <<>> \o [i \in 1..Len(s) |-> f(s[i])]

\* String.prototype.trim: white space is dropped at both ends.
WhiteSpace == {" "}

RECURSIVE trimStart(_)
trimStart(s) ==
  IF s # <<>> /\ Head(s) \in WhiteSpace THEN trimStart(Tail(s)) ELSE s

RECURSIVE trimEnd(_)
trimEnd(s) ==
  IF s # <<>> /\ s[Len(s)] \in WhiteSpace
  THEN trimEnd(SubSeq(s, 1, Len(s) - 1)) ELSE s

trim(s) == trimEnd(trimStart(s))

\* The places where sep occurs in s, and s.split(sep) for a sep that does
\* not overlap itself.
Occurrences(s, sep) ==
  {i \in 1..(Len(s) - Len(sep) + 1) :
     s[i] = sep[1] /\ SubSeq(s, i, i + Len(sep) - 1) = sep}

Min(S) == CHOOSE j \in S : \A k \in S : j <= k

\* The pieces of s from from on, occ being the places of sep left.
RECURSIVE splitAt(_, _, _, _)
splitAt(s, sep, from, occ) ==
  IF occ = {} THEN << SubSeq(s, from, Len(s)) >>
  ELSE << SubSeq(s, from, Min(occ) - 1) >>
       \o splitAt(s, sep, Min(occ) + Len(sep),
                  {i \in occ : i >= Min(occ) + Len(sep)})

split(s, sep) == splitAt(s, sep, 1, Occurrences(s, sep))

RECURSIVE join(_, _)
join(parts, sep) ==
  IF parts = <<>> THEN <<>>
  ELSE IF Len(parts) = 1 THEN parts[1]
  ELSE parts[1] \o sep \o join(Tail(parts), sep)

\* ------------------------------------------------------- URI component
\* The lexemes encodeURIComponent escapes, each with its escape sequence.
\* Every other lexeme is a run of unreserved characters and is kept.
Escapes ==
  << <<" ", "%20">>, <<";", "%3B">>, <<"=", "%3D">>, <<"\"", "%22">>,
     <<"\\", "%5C">>, <<"%", "%25">>, <<"#", "%23">>, <<"[", "%5B">>,
     <<"]", "%5D">>, <<"{", "%7B">>, <<"}", "%7D">>, <<":", "%3A">>,
     <<",", "%2C">>, <<"/", "%2F">>, <<"\\\"", "%5C%22">>,
     <<"\\\\", "%5C%5C">> >>

Reserved == {Escapes[i][1] : i \in 1..Len(Escapes)}
Escaped == {Escapes[i][2] : i \in 1..Len(Escapes)}

escapeOf ==
  [c \in Reserved |->
     Escapes[CHOOSE i \in 1..Len(Escapes) : Escapes[i][1] = c][2]]
unescapeOf ==
  [c \in Escaped |->
     Escapes[CHOOSE i \in 1..Len(Escapes) : Escapes[i][2] = c][1]]

\* A "%" that no two hexadecimal digits follow, or whose octets are no
\* UTF-8: decodeURIComponent throws URIError on it.
Malformed == {"%", "%zz", "%E0%A4"}

\* encodeURIComponent as it would be if the text were written as it is.
encodeURIComponent_asIs(s) == s

encodeURIComponent(s) ==
  map(s, LAMBDA c : IF c \in Reserved THEN escapeOf[c] ELSE c)

\* [ok |-> FALSE] is the URIError.
decodeURIComponent(s) ==
  IF \E i \in 1..Len(s) : s[i] \in Malformed THEN [ok |-> FALSE]
  ELSE [ok |-> TRUE,
        val |-> map(s, LAMBDA c : IF c \in Escaped THEN unescapeOf[c]
                                  ELSE c)]

\* ------------------------------------------------------------------- JSON
\* JSON.stringify of a string: quoted, the quote and the backslash escaped.
quote(s) ==
  <<"\"">> \o
  map(s, LAMBDA c : IF c = "\"" THEN "\\\""
                    ELSE IF c = "\\" THEN "\\\\" ELSE c) \o
  <<"\"">>

\* A string or null.
stringifyValue(v) == IF v = null THEN <<"null">> ELSE quote(v)

\* An object of the given keys, in that order.
stringifyObject(obj, keys) ==
  <<"{">> \o
  join(map(keys, LAMBDA k :
             quote(<<k>>) \o <<":">> \o stringifyValue(obj[k])),
       <<",">>) \o
  <<"}">>

stringifyArray(arr, keys) ==
  <<"[">> \o
  join(map(arr, LAMBDA obj : stringifyObject(obj, keys)), <<",">>) \o
  <<"]">>

PlayerKeys == <<"id", "name", "color", "teamId">>
TeamKeys == <<"id", "name", "accent">>

\* JSON.parse over null, strings, arrays and objects.  A parsed value is
\* tagged: [t |-> "null"], [t |-> "str", s |-> text], [t |-> "arr", a |->
\* values], [t |-> "obj", o |-> members [k |-> key, v |-> value]].
\* [ok |-> FALSE] is the SyntaxError.
SyntaxError == [ok |-> FALSE]

\* The place of the first quote of s from j on, or 0.
RECURSIVE closingQuote(_, _)
closingQuote(s, j) ==
  IF j > Len(s) THEN 0
  ELSE IF s[j] = "\"" THEN j
  ELSE closingQuote(s, j + 1)

\* A string's characters body, the text going on at pos.
stringOf(body, pos) ==
  IF "\\" \in Range(body) THEN SyntaxError
  ELSE [ok |-> TRUE, pos |-> pos,
        val |-> map(body, LAMBDA c : IF c = "\\\"" THEN "\""
                                     ELSE IF c = "\\\\" THEN "\\" ELSE c)]

\* A string that opens at s[i] and closes at s[j].
stringUpTo(s, i, j) ==
  IF j = 0 THEN SyntaxError ELSE stringOf(SubSeq(s, i + 1, j - 1), j + 1)

parseString(s, i) ==
  stringUpTo(s, i, IF i > Len(s) \/ s[i] # "\"" THEN 0
                   ELSE closingQuote(s, i + 1))

\* The value of a string parsed as r.
stringValue(r) ==
  IF r.ok THEN [ok |-> TRUE, pos |-> r.pos, val |-> [t |-> "str", s |-> r.val]]
  ELSE SyntaxError

RECURSIVE parseValue(_, _)
RECURSIVE parseElements(_, _, _)
RECURSIVE nextElement(_, _, _)
RECURSIVE parseMembers(_, _, _)
RECURSIVE memberValue(_, _, _)
RECURSIVE nextMember(_, _, _, _)

parseValue(s, i) ==
  IF i > Len(s) THEN SyntaxError
  ELSE IF s[i] = "null"
  THEN [ok |-> TRUE, pos |-> i + 1, val |-> [t |-> "null"]]
  ELSE IF s[i] = "\"" THEN stringValue(parseString(s, i))
  ELSE IF s[i] = "["
  THEN IF i < Len(s) /\ s[i + 1] = "]"
       THEN [ok |-> TRUE, pos |-> i + 2, val |-> [t |-> "arr", a |-> <<>>]]
       ELSE parseElements(s, i + 1, <<>>)
  ELSE IF s[i] = "{"
  THEN IF i < Len(s) /\ s[i + 1] = "}"
       THEN [ok |-> TRUE, pos |-> i + 2, val |-> [t |-> "obj", o |-> <<>>]]
       ELSE parseMembers(s, i + 1, <<>>)
  ELSE SyntaxError

\* The elements of an array from s[i] on, after those of acc.
parseElements(s, i, acc) == nextElement(s, parseValue(s, i), acc)

\* ... the element parsed as r.
nextElement(s, r, acc) ==
  IF ~r.ok \/ r.pos > Len(s) THEN SyntaxError
  ELSE IF s[r.pos] = ","
  THEN parseElements(s, r.pos + 1, Append(acc, r.val))
  ELSE IF s[r.pos] = "]"
  THEN [ok |-> TRUE, pos |-> r.pos + 1,
        val |-> [t |-> "arr", a |-> Append(acc, r.val)]]
  ELSE SyntaxError

\* The members of an object from s[i] on, after those of acc.
parseMembers(s, i, acc) == memberValue(s, parseString(s, i), acc)

\* ... the key parsed as k.
memberValue(s, k, acc) ==
  IF ~k.ok \/ k.pos > Len(s) \/ s[k.pos] # ":" THEN SyntaxError
  ELSE nextMember(s, k.val, parseValue(s, k.pos + 1), acc)

\* ... the value of the key parsed as r.
nextMember(s, key, r, acc) ==
  IF ~r.ok \/ r.pos > Len(s) THEN SyntaxError
  ELSE IF s[r.pos] = ","
  THEN parseMembers(s, r.pos + 1, Append(acc, [k |-> key, v |-> r.val]))
  ELSE IF s[r.pos] = "}"
  THEN [ok |-> TRUE, pos |-> r.pos + 1,
        val |-> [t |-> "obj", o |-> Append(acc, [k |-> key, v |-> r.val])]]
  ELSE SyntaxError

\* The text is one value and nothing else.
wholeText(s, r) ==
  IF r.ok /\ r.pos = Len(s) + 1 THEN [ok |-> TRUE, val |-> r.val]
  ELSE SyntaxError

JSONparse(s) == wholeText(s, parseValue(s, 1))

\* The parsed value as the program holds it: an array of objects of scalar
\* members is a sequence of records, a later member of a name replacing an
\* earlier one.
keyOf(k) == IF k = <<>> THEN "" ELSE k[1]
scalar(v) == IF v.t = "str" THEN v.s ELSE null

objectOf(o) ==
  [f \in {keyOf(o[i].k) : i \in 1..Len(o)} |->
     LET last == CHOOSE i \in 1..Len(o) :
                   /\ keyOf(o[i].k) = f
                   /\ \A j \in (i + 1)..Len(o) : keyOf(o[j].k) # f
     IN  scalar(o[last].v)]

isArrayOfObjects(v) ==
  v.t = "arr" /\ \A i \in 1..Len(v.a) : v.a[i].t = "obj"

arrayOf(v) == map(v.a, LAMBDA e : objectOf(e.o))

\* ---------------------------------------------------------------- cookies
\* The cookie store: the cookies in the order of their creation, each
\* [name |-> text, value |-> text].  The program gives every cookie the
\* path "/" and a max-age of one year.
CookieAttributes ==
  <<";", " ", "path", "=", "/", ";", " ", "max-age", "=", "31536000">>

\* document.cookie = str.  The store keeps the pair before the first ";",
\* split at its first "=", both sides trimmed; a cookie of the same name is
\* replaced in its place.
stored(jar, c) ==
  IF \E i \in 1..Len(jar) : jar[i].name = c.name
  THEN map(jar, LAMBDA old : IF old.name = c.name THEN c ELSE old)
  ELSE Append(jar, c)

pairAt(jar, pair, eq) ==
  IF eq = {} THEN jar
  ELSE stored(jar, [name |-> trim(SubSeq(pair, 1, Min(eq) - 1)),
                    value |-> trim(SubSeq(pair, Min(eq) + 1, Len(pair)))])

pairOf(jar, pair) == pairAt(jar, pair, Occurrences(pair, <<"=">>))

setCookie(jar, str) == pairOf(jar, split(str, <<";">>)[1])

\* The document.cookie that scripts read.
documentCookie(jar) ==
  join(map(jar, LAMBDA c : c.name \o <<"=">> \o c.value), <<";", " ">>)

\* getCookie: [ok |-> TRUE, val |-> the decoded text or null], or
\* [ok |-> FALSE] when decodeURIComponent throws.
\* val ? decodeURIComponent(val) : null
decoded(val) ==
  IF val # <<>> THEN decodeURIComponent(val) ELSE [ok |-> TRUE, val |-> null]

\* parts.pop().split(";").shift() when there are two parts.
secondPart(parts) ==
  IF Len(parts) = 2 THEN decoded(split(parts[Len(parts)], <<";">>)[1])
  ELSE [ok |-> TRUE, val |-> null]

getCookie(jar, name) ==
  secondPart(split(<<";", " ">> \o documentCookie(jar),
                   <<";", " ">> \o name \o <<"=">>))

\* ------------------------------------------------------------------- seed
palette ==
  << <<"#", "ff7b7b">>, <<"#", "ffd36b">>, <<"#", "9ae66e">>,
     <<"#", "6fd1ff">>, <<"#", "caa0ff">>, <<"#", "ffa6c9">>,
     <<"#", "8de4ff">>, <<"#", "ffe066">> >>

\* palette[n % palette.length], the palette counted from 0.
paletteAt(n) == palette[(n % Len(palette)) + 1]

initialTeams ==
  << [id |-> <<"alpha">>, name |-> <<"Team", " ", "Alpha">>,
      accent |-> <<"#", "ffb347">>],
     [id |-> <<"bravo">>, name |-> <<"Team", " ", "Bravo">>,
      accent |-> <<"#", "6dd5ed">>] >>

SeedNames ==
  <<"Astra", "Blitz", "Cipher", "Draco", "Echo", "Flux", "Gemini", "Halo",
    "Ion", "Jinx", "Kairo", "Luna", "Metro">>

\* makeId: crypto.randomUUID, or seven random base-36 digits.  The n-th id
\* drawn since the store was empty is written "u<n>": an id is a run of
\* unreserved characters, and no draw repeats an earlier one.
makeId(n) == << "u" \o ToString(n) >>

\* seededPlayers, built when the module is evaluated, the ids drawn from n.
seedPlayers(n) ==
  <<>> \o [index \in 1..Len(SeedNames) |->
            [id |-> makeId(n + index - 1), name |-> <<SeedNames[index]>>,
             color |-> paletteAt(index - 1), teamId |-> null]]

\* ----------------------------------------------------------------- roster
\* String.prototype.localeCompare on the lexemes names are made of: white
\* space, then punctuation, then symbols, then letters; a text that is a
\* prefix of another comes first.  -1, 0 or 1.
Collation ==
  <<" ", ";", "\"", "\\", "%", "=", "Alpha", "Astra", "Blitz", "Bravo",
    "Cipher", "Draco", "Echo", "Flux", "Gemini", "Halo", "Ion", "Jinx",
    "Kairo", "Luna", "Metro", "Team", "y", "z">>

Rank == [c \in Range(Collation) |->
           CHOOSE i \in 1..Len(Collation) : Collation[i] = c]

RECURSIVE localeCompare(_, _)
localeCompare(a, b) ==
  IF a = <<>> /\ b = <<>> THEN 0
  ELSE IF a = <<>> THEN -1
  ELSE IF b = <<>> THEN 1
  ELSE IF Rank[Head(a)] < Rank[Head(b)] THEN -1
  ELSE IF Rank[Head(a)] > Rank[Head(b)] THEN 1
  ELSE localeCompare(Tail(a), Tail(b))

\* Array.prototype.sort with (a, b) => a.name.localeCompare(b.name): the
\* sort is stable, an element goes behind the elements it does not precede.
RECURSIVE insertByName(_, _)
insertByName(list, p) ==
  IF list = <<>> THEN <<p>>
  ELSE IF localeCompare(p.name, Head(list).name) < 0 THEN <<p>> \o list
  ELSE <<Head(list)>> \o insertByName(Tail(list), p)

\* The sort as it would be if the buckets were left in the order of the
\* collection.
sortByName_unsorted(list) == list

RECURSIVE sortByName(_)
sortByName(list) ==
  IF list = <<>> THEN <<>>
  ELSE insertByName(sortByName(SubSeq(list, 1, Len(list) - 1)),
                    list[Len(list)])

benchKey == <<"bench">>

\* player.teamId ?? 'bench'
bucketOf(player) == IF player.teamId = null THEN benchKey ELSE player.teamId

\* roster as it would be if it kept the buckets of the bench and of the
\* teams only.
roster_knownTeams(ps, ts) ==
  [k \in {benchKey} \cup {ts[i].id : i \in 1..Len(ts)} |->
     sortByName(SelectSeq(ps, LAMBDA p : bucketOf(p) = k))]

\* roster: a bucket for the bench, one for each team and one for each
\* teamId met that has none yet; the players pushed in the order of the
\* collection; each bucket sorted.
roster(ps, ts) ==
  LET keys == {benchKey} \cup {ts[i].id : i \in 1..Len(ts)}
                         \cup {bucketOf(ps[i]) : i \in 1..Len(ps)}
  IN  [k \in keys |-> sortByName(SelectSeq(ps, LAMBDA p : bucketOf(p) = k))]

\* ------------------------------------------------------------------ state
VARIABLES
  players,        \* useState<Player[]>
  teams,          \* useState<Team[]>
  hoveredZone,    \* useState<string | null>
  editing,        \* the Nametag or TeamColumn whose isEditing is true
  view,           \* roster, the useMemo of the last render
  cookies,        \* the browser's cookie store
  seededPlayers,  \* the module constant, built at each load
  nextId,         \* ids drawn so far
  loads,          \* page loads so far
  status,         \* "unloaded", "unrendered", "running", or "crashed"
  hist            \* history: the team created last and the moves since

vars == <<players, teams, hoveredZone, editing, view, cookies,
          seededPlayers, nextId, loads, status, hist>>

NoEdit == [kind |-> "none", id |-> null]

\* The history of the last events, kept to state what an operation did:
\* phase "open" from a Create Team on, while only moves follow, "closed"
\* in the state the removal of that team yields, "rejected" after a
\* creation was submitted with a blank name, "unrenamed" after an editor
\* was submitted with a blank name, "none" otherwise.  players and teams are
\* the collections before the event (before the creation, when open or
\* closed), id the created or edited id, moved the players dropped on the
\* created team since, on the players it held when it was removed.  dropped
\* tells that the last event was a drop on a zone.
NoHist ==
  [phase |-> "none", players |-> <<>>, teams |-> <<>>, id |-> null,
   moved |-> {}, on |-> {}, dropped |-> FALSE]

\* hist over an event that is no operation on the collections.
histKept ==
  IF hist.phase = "open" THEN [hist EXCEPT !.dropped = FALSE] ELSE NoHist

\* hist after an event of the given phase.
histOf(phase, id) ==
  [NoHist EXCEPT !.phase = phase, !.players = players, !.teams = teams,
                 !.id = id]

\* What the user types into a form field or an inline editor.
Typed == {<<>>, <<" ">>, <<" ", "z", ";", " ">>}

\* ------------------------------------------------------------ persistence
\* The effect of [players].
persistPlayers(jar, ps) ==
  setCookie(jar, <<"players", "=">>
                 \o encodeURIComponent(stringifyArray(ps, PlayerKeys))
                 \o CookieAttributes)

\* The effect of [teams].
persistTeams(jar, ts) ==
  setCookie(jar, <<"teams", "=">>
                 \o encodeURIComponent(stringifyArray(ts, TeamKeys))
                 \o CookieAttributes)

\* The effects as they would be if one effect held both writes and left
\* after the first.
runEffects_oneWrite(jar, ps, pSet, ts, tSet) ==
  IF pSet THEN persistPlayers(jar, ps)
  ELSE IF tSet THEN persistTeams(jar, ts) ELSE jar

\* The effects after a render: each runs when its collection was replaced.
runEffects(jar, ps, pSet, ts, tSet) ==
  LET j == IF pSet THEN persistPlayers(jar, ps) ELSE jar
  IN  IF tSet THEN persistTeams(j, ts) ELSE j

\* A useState initializer: the slot's text parsed, or the seed.  threw: the
\* read of the slot threw; parsed: the value is JSON.parse's; isArray: the
\* value is an array of objects, which the first render can go through.
\* r is what JSON.parse gave inside the try.
triedState(r, seed) ==
  IF ~r.ok
  THEN [threw |-> FALSE, parsed |-> FALSE, isArray |-> TRUE, value |-> seed]
  ELSE IF isArrayOfObjects(r.val)
  THEN [threw |-> FALSE, parsed |-> TRUE, isArray |-> TRUE,
        value |-> arrayOf(r.val)]
  ELSE [threw |-> FALSE, parsed |-> TRUE, isArray |-> FALSE, value |-> <<>>]

\* saved is what getCookie gave, before the try.
savedState(saved, seed) ==
  IF ~saved.ok
  THEN [threw |-> TRUE, parsed |-> FALSE, isArray |-> FALSE, value |-> <<>>]
  ELSE triedState(IF saved.val # null THEN JSONparse(saved.val)
                  ELSE SyntaxError, seed)

initialState(jar, name, seed) == savedState(getCookie(jar, name), seed)

\* The first render and its effects, p and t being the initial states.  An
\* initializer that throws ends the render: no later state is initialized.
mounted(jar, p, t, ok) ==
  /\ status' = IF ok THEN "running" ELSE "crashed"
  /\ players' = IF p.threw THEN <<>> ELSE p.value
  /\ teams' = IF p.threw \/ t.threw THEN <<>> ELSE t.value
  /\ view' = IF ok THEN roster(p.value, t.value) ELSE <<>>
  /\ cookies' = IF ok THEN runEffects(jar, p.value, TRUE, t.value, TRUE)
                ELSE jar

firstRender(jar, p, t) ==
  mounted(jar, p, t, ~p.threw /\ ~t.threw /\ p.isArray /\ t.isArray)

\* The page loads over the cookie store jar: the module is evaluated, App
\* renders for the first time and its effects run.
Mount(jar) ==
  /\ seededPlayers' = seedPlayers(nextId)
  /\ nextId' = nextId + Len(SeedNames)
  /\ loads' = loads + 1
  /\ hoveredZone' = null
  /\ editing' = NoEdit
  /\ hist' = NoHist
  /\ firstRender(jar, initialState(jar, <<"players">>, seedPlayers(nextId)),
                 initialState(jar, <<"teams">>, initialTeams))

\* The state after the first load of a browser that holds no cookie.
Init ==
  LET seed == seedPlayers(1)
  IN  /\ players = seed
      /\ teams = initialTeams
      /\ hoveredZone = null
      /\ editing = NoEdit
      /\ view = roster(seed, initialTeams)
      /\ cookies = runEffects(<<>>, seed, TRUE, initialTeams, TRUE)
      /\ seededPlayers = seed
      /\ nextId = 1 + Len(seed)
      /\ loads = 1
      /\ status = "running"
      /\ hist = NoHist

\* The user is at the page and no inline editor holds the focus.
Idle == status = "running" /\ editing = NoEdit

\* ... and no zone is highlighted.  Only the handlers of the zones read or
\* write hoveredZone, so the other events are taken from the states at rest.
AtRest == Idle /\ hoveredZone = null

\* The render as it would be if the projection were computed before the
\* update of the players was applied.
Render_stalePlayers(ps, pSet, ts, tSet) ==
  /\ players' = ps
  /\ teams' = ts
  /\ view' = roster(players, ts)
  /\ cookies' = runEffects(cookies, ps, pSet, ts, tSet)

\* A render after a handler that replaced players (pSet), teams (tSet).
Render(ps, pSet, ts, tSet) ==
  /\ players' = ps
  /\ teams' = ts
  /\ view' = roster(ps, ts)
  /\ cookies' = runEffects(cookies, ps, pSet, ts, tSet)

\* The players the user acts on: the first of the seed of this load.
Touched ==
  {i \in 1..Len(players) :
     \E k \in 1..MaxTouch : players[i].id = seededPlayers[k].id}

\* The teams the user renames.
Renamed == {i \in 1..Len(teams) : i <= MaxTouch}

\* Ids drawn by the handlers since the load.
created == nextId - 1 - loads * Len(SeedNames)

\* ---------------------------------------------------------------- actions
\* handleCreatePlayer as it would be if the id were made from the number
\* of players instead of drawn.
handleCreatePlayer_idByCount(playerName) ==
  LET trimmed == trim(playerName)
  IN  IF trimmed = <<>>
      THEN UNCHANGED <<players, teams, view, cookies, nextId>>
      ELSE /\ Render(Append(players,
                            [id |-> makeId(Len(players) + 1), name |-> trimmed,
                             color |-> paletteAt(Len(players)),
                             teamId |-> null]),
                     TRUE, teams, FALSE)
           /\ nextId' = nextId + 1

\* handleCreatePlayer as it would be if it tested the name before the trim.
handleCreatePlayer_untrimmedTest(playerName) ==
  IF playerName = <<>>
  THEN UNCHANGED <<players, teams, view, cookies, nextId>>
  ELSE /\ Render(Append(players,
                        [id |-> makeId(nextId), name |-> trim(playerName),
                         color |-> paletteAt(Len(players)),
                         teamId |-> null]),
                 TRUE, teams, FALSE)
       /\ nextId' = nextId + 1

\* handleCreatePlayer, playerName being what the form's field holds.
handleCreatePlayer(playerName) ==
  LET trimmed == trim(playerName)
  IN  IF trimmed = <<>>
      THEN UNCHANGED <<players, teams, view, cookies, nextId>>
      ELSE /\ Render(Append(players,
                            [id |-> makeId(nextId), name |-> trimmed,
                             color |-> paletteAt(Len(players)),
                             teamId |-> null]),
                     TRUE, teams, FALSE)
           /\ nextId' = nextId + 1

CreatePlayer ==
  /\ AtRest
  /\ created < MaxCreated
  /\ \E playerName \in Typed :
       /\ handleCreatePlayer(playerName)
       /\ hist' = IF trim(playerName) = <<>> THEN histOf("rejected", null)
                  ELSE NoHist
  /\ UNCHANGED <<hoveredZone, editing, seededPlayers, loads, status>>

\* handleCreateTeam as it would be if the accent went by the number of
\* teams there have been.
handleCreateTeam_everCreated(teamName) ==
  LET trimmed == trim(teamName)
  IN  IF trimmed = <<>>
      THEN UNCHANGED <<players, teams, view, cookies, nextId>>
      ELSE /\ Render(players, FALSE,
                     Append(teams,
                            [id |-> makeId(nextId), name |-> trimmed,
                             accent |-> paletteAt(Len(initialTeams)
                                                  + created)]),
                     TRUE)
           /\ nextId' = nextId + 1

\* handleCreateTeam, teamName being what the form's field holds.
handleCreateTeam(teamName) ==
  LET trimmed == trim(teamName)
  IN  IF trimmed = <<>>
      THEN UNCHANGED <<players, teams, view, cookies, nextId>>
      ELSE /\ Render(players, FALSE,
                     Append(teams,
                            [id |-> makeId(nextId), name |-> trimmed,
                             accent |-> paletteAt(Len(teams))]),
                     TRUE)
           /\ nextId' = nextId + 1

CreateTeam ==
  /\ AtRest
  /\ created < MaxCreated
  /\ \E teamName \in Typed :
       /\ handleCreateTeam(teamName)
       /\ hist' = IF trim(teamName) = <<>> THEN histOf("rejected", null)
                  ELSE histOf("open", makeId(nextId))
  /\ UNCHANGED <<hoveredZone, editing, seededPlayers, loads, status>>

\* handleDrop as it would be if it took the player out and put it back at
\* the end.
handleDrop_toEnd(playerId, teamId) ==
  /\ Render(SelectSeq(players, LAMBDA player : player.id # playerId)
            \o map(SelectSeq(players, LAMBDA player : player.id = playerId),
                   LAMBDA player : [player EXCEPT !.teamId = teamId]),
            TRUE, teams, FALSE)
  /\ hoveredZone' = null

\* handleDrop as it would be without the test of the id.
handleDrop_everyone(playerId, teamId) ==
  /\ Render(map(players, LAMBDA player : [player EXCEPT !.teamId = teamId]),
            TRUE, teams, FALSE)
  /\ hoveredZone' = null

\* handleDrop
handleDrop(playerId, teamId) ==
  /\ Render(map(players, LAMBDA player :
                  IF player.id = playerId
                  THEN [player EXCEPT !.teamId = teamId] ELSE player),
            TRUE, teams, FALSE)
  /\ hoveredZone' = null

\* The zones rendered: their key and the teamId their handlers were made
\* with.
Zones ==
  {[key |-> benchKey, teamId |-> null]}
  \cup {[key |-> teams[i].id, teamId |-> teams[i].id] : i \in 1..Len(teams)}

\* What a drag carries under "playerId": the id startDrag put there, or
\* nothing when the drag did not start on a nametag.
Carried == {players[i].id : i \in Touched} \cup {<<>>}

\* onDrop of the zone made with teamId, playerId being what getData gives.
onDrop(teamId, playerId) ==
  IF playerId # <<>>
  THEN handleDrop(playerId, teamId)
  ELSE UNCHANGED <<players, teams, view, cookies, hoveredZone>>

\* A drop on a zone.
Drop ==
  /\ Idle
  /\ \E zone \in Zones, playerId \in Carried :
       /\ onDrop(zone.teamId, playerId)
       /\ hist' = [(IF playerId = <<>> THEN histKept
                    ELSE IF hist.phase # "open" THEN NoHist
                    ELSE IF zone.teamId # hist.id THEN hist
                    ELSE [hist EXCEPT !.moved = @ \cup {playerId}])
                   EXCEPT !.dropped = TRUE]
  /\ UNCHANGED <<editing, seededPlayers, nextId, loads, status>>

\* onDragEnter of the zone made with zoneKey.
onDragEnter(zoneKey) == hoveredZone' = zoneKey

\* The drag enters a zone.
DragEnter ==
  /\ Idle
  /\ \E zone \in Zones : onDragEnter(zone.key)
  /\ hist' = histKept
  /\ UNCHANGED <<players, teams, view, cookies, editing, seededPlayers,
                 nextId, loads, status>>

\* onDragLeave of the zone made with zoneKey.
onDragLeave(zoneKey) ==
  hoveredZone' = IF hoveredZone = zoneKey THEN null ELSE hoveredZone

\* The drag leaves a zone.
DragLeave ==
  /\ Idle
  /\ \E zone \in Zones : onDragLeave(zone.key)
  /\ hist' = histKept
  /\ UNCHANGED <<players, teams, view, cookies, editing, seededPlayers,
                 nextId, loads, status>>

\* handleRemovePlayer
handleRemovePlayer(playerId) ==
  Render(SelectSeq(players, LAMBDA player : player.id # playerId), TRUE,
         teams, FALSE)

RemovePlayer ==
  /\ AtRest
  /\ \E i \in Touched : handleRemovePlayer(players[i].id)
  /\ hist' = NoHist
  /\ UNCHANGED <<hoveredZone, editing, seededPlayers, nextId, loads, status>>

\* handleRemoveTeam as it would be without the update of the players.
handleRemoveTeam_orphans(teamId) ==
  Render(players, FALSE,
         SelectSeq(teams, LAMBDA team : team.id # teamId), TRUE)

\* handleRemoveTeam as it would be if it sent every player to the bench.
handleRemoveTeam_benchesAll(teamId) ==
  Render(map(players, LAMBDA player : [player EXCEPT !.teamId = null]),
         TRUE,
         SelectSeq(teams, LAMBDA team : team.id # teamId), TRUE)

\* handleRemoveTeam as it would be with the test of its filter inverted.
handleRemoveTeam_keepsOnly(teamId) ==
  Render(map(players, LAMBDA player :
               IF player.teamId = teamId
               THEN [player EXCEPT !.teamId = null] ELSE player),
         TRUE,
         SelectSeq(teams, LAMBDA team : team.id = teamId), TRUE)

\* handleRemoveTeam
handleRemoveTeam(teamId) ==
  Render(map(players, LAMBDA player :
               IF player.teamId = teamId
               THEN [player EXCEPT !.teamId = null] ELSE player),
         TRUE,
         SelectSeq(teams, LAMBDA team : team.id # teamId), TRUE)

RemoveTeam ==
  /\ AtRest
  /\ \E i \in 1..Len(teams) :
       /\ handleRemoveTeam(teams[i].id)
       /\ hist' = IF hist.phase = "open" /\ teams[i].id = hist.id
                  THEN [hist EXCEPT
                          !.phase = "closed",
                          !.dropped = FALSE,
                          !.on = {players[k].id : k \in
                                    {k \in 1..Len(players) :
                                       players[k].teamId = hist.id}}]
                  ELSE NoHist
  /\ UNCHANGED <<hoveredZone, editing, seededPlayers, nextId, loads, status>>

\* handleUpdatePlayerName as it would be if it built the player anew, off
\* any team.
handleUpdatePlayerName_benches(playerId, newName) ==
  Render(map(players, LAMBDA player :
               IF player.id = playerId
               THEN [player EXCEPT !.name = newName, !.teamId = null]
               ELSE player),
         TRUE, teams, FALSE)

\* handleUpdatePlayerName
handleUpdatePlayerName(playerId, newName) ==
  Render(map(players, LAMBDA player :
               IF player.id = playerId
               THEN [player EXCEPT !.name = newName] ELSE player),
         TRUE, teams, FALSE)

\* handleUpdateTeamName
handleUpdateTeamName(teamId, newName) ==
  Render(players, FALSE,
         map(teams, LAMBDA team :
               IF team.id = teamId
               THEN [team EXCEPT !.name = newName] ELSE team),
         TRUE)

\* A click on a name: setEditName(name), setIsEditing(true).
StartEdit ==
  /\ AtRest
  /\ \/ \E i \in Touched : editing' = [kind |-> "player", id |-> players[i].id]
     \/ \E i \in Renamed :
          editing' = [kind |-> "team", id |-> teams[i].id]
  /\ hist' = histKept
  /\ UNCHANGED <<players, teams, view, cookies, hoveredZone, seededPlayers,
                 nextId, loads, status>>

\* Nametag.handleSubmit as it would be if it left the editor open on a
\* blank name.
NametagSubmit_staysOpen(editName) ==
  IF trim(editName) # <<>>
  THEN /\ handleUpdatePlayerName(editing.id, trim(editName))
       /\ editing' = NoEdit
  ELSE UNCHANGED <<players, teams, view, cookies, editing>>

\* Nametag.handleSubmit, on submit or on blur, editName being what the
\* editor holds.
NametagSubmit(editName) ==
  /\ IF trim(editName) # <<>>
     THEN handleUpdatePlayerName(editing.id, trim(editName))
     ELSE UNCHANGED <<players, teams, view, cookies>>
  /\ editing' = NoEdit

\* TeamColumn.handleSubmit as it would be if it passed on the text as it
\* was typed.
TeamColumnSubmit_untrimmed(editName) ==
  /\ IF trim(editName) # <<>>
     THEN handleUpdateTeamName(editing.id, editName)
     ELSE UNCHANGED <<players, teams, view, cookies>>
  /\ editing' = NoEdit

\* TeamColumn.handleSubmit, on submit or on blur.
TeamColumnSubmit(editName) ==
  /\ IF trim(editName) # <<>>
     THEN handleUpdateTeamName(editing.id, trim(editName))
     ELSE UNCHANGED <<players, teams, view, cookies>>
  /\ editing' = NoEdit

SubmitEdit ==
  /\ status = "running"
  /\ \E editName \in Typed :
       /\ \/ editing.kind = "player" /\ NametagSubmit(editName)
          \/ editing.kind = "team" /\ TeamColumnSubmit(editName)
       /\ hist' = IF trim(editName) = <<>>
                  THEN histOf("unrenamed", editing.id) ELSE NoHist
  /\ UNCHANGED <<hoveredZone, seededPlayers, nextId, loads, status>>

\* handleReset as it would be without setTeams(initialTeams).
handleReset_keepsTeams(confirmed) ==
  IF confirmed
  THEN Render(seededPlayers, TRUE, teams, FALSE)
  ELSE UNCHANGED <<players, teams, view, cookies>>

\* handleReset, confirmed being the answer to confirm().
handleReset(confirmed) ==
  IF confirmed
  THEN Render(seededPlayers, TRUE, initialTeams, TRUE)
  ELSE UNCHANGED <<players, teams, view, cookies>>

Reset ==
  /\ AtRest
  /\ \E confirmed \in BOOLEAN : handleReset(confirmed)
  /\ hist' = NoHist
  /\ UNCHANGED <<hoveredZone, editing, seededPlayers, nextId, loads, status>>

\* The user reloads the page.
Reload ==
  /\ AtRest
  /\ loads <= MaxReloads
  /\ Mount(cookies)

Next ==
  \/ CreatePlayer
  \/ CreateTeam
  \/ Drop
  \/ DragEnter
  \/ DragLeave
  \/ RemovePlayer
  \/ RemoveTeam
  \/ StartEdit
  \/ SubmitEdit
  \/ Reset
  \/ Reload

Spec == Init /\ [][Next]_vars

\* ------------------------------------------------- the load after a loss
\* The cookie store after the players slot, the teams slot, both or none
\* expired (max-age) or were deleted.
expired(jar, lostPlayers, lostTeams) ==
  SelectSeq(jar, LAMBDA c :
                   /\ ~(lostPlayers /\ c.name = <<"players">>)
                   /\ ~(lostTeams /\ c.name = <<"teams">>))

\* The user comes back to the page after slots may have been lost.
LoadAfterLoss ==
  /\ AtRest
  /\ loads <= MaxReloads
  /\ \E lostPlayers, lostTeams \in BOOLEAN :
       Mount(expired(cookies, lostPlayers, lostTeams))

NextLoss ==
  \/ CreatePlayer
  \/ CreateTeam
  \/ Drop
  \/ DragEnter
  \/ DragLeave
  \/ RemovePlayer
  \/ RemoveTeam
  \/ StartEdit
  \/ SubmitEdit
  \/ Reset
  \/ LoadAfterLoss

SpecLoss == Init /\ [][NextLoss]_vars

\* ------------------------------------------------------------- the load
\* The texts a slot holds when the page loads: what an effect wrote, and
\* what a truncation, another program or the user left there.
savedPlayers ==
  << [id |-> <<"p1">>, name |-> <<"z", ";", "y">>, color |-> paletteAt(0),
      teamId |-> <<"bravo">>],
     [id |-> <<"p2">>, name |-> <<"y", " ", "\"", "=">>,
      color |-> paletteAt(1), teamId |-> null] >>

savedTeams ==
  << [id |-> <<"bravo">>, name |-> <<"z", "=", ";">>,
      accent |-> paletteAt(2)] >>

Absent == <<"<absent>">>

SlotTexts(saved) ==
  { Absent,
    <<>>,
    <<"%">>,
    <<"%E0%A4">>,
    <<"%5B">>,
    <<"%5B", "%7B", "%22", "id", "%22", "%3A">>,
    <<"abc">>,
    <<"null">>,
    <<"%7B", "%7D">>,
    <<"%5B", "null", "%5D">>,
    <<"%5B", "%5D">>,
    encodeURIComponent(saved) }

\* The cookie store with the given texts in the slots, after the cookie of
\* the theme when there is one.
jarOf(theme, playersText, teamsText) ==
  (IF theme THEN << [name |-> <<"theme">>, value |-> <<"dark">>] >>
   ELSE <<>>)
  \o (IF playersText = Absent THEN <<>>
      ELSE << [name |-> <<"players">>, value |-> playersText] >>)
  \o (IF teamsText = Absent THEN <<>>
      ELSE << [name |-> <<"teams">>, value |-> teamsText] >>)

\* Before the page is loaded.
InitLoad ==
  /\ status = "unloaded"
  /\ \E theme \in BOOLEAN,
        playersText \in SlotTexts(stringifyArray(savedPlayers, PlayerKeys)),
        teamsText \in SlotTexts(stringifyArray(savedTeams, TeamKeys)) :
       cookies = jarOf(theme, playersText, teamsText)
  /\ players = <<>>
  /\ teams = <<>>
  /\ view = <<>>
  /\ hoveredZone = null
  /\ editing = NoEdit
  /\ seededPlayers = <<>>
  /\ nextId = 1
  /\ loads = 0
  /\ hist = NoHist

\* The page is loaded.
Load ==
  /\ status = "unloaded"
  /\ Mount(cookies)

NextLoad == Load

SpecLoad == InitLoad /\ [][NextLoad]_vars

\* ------------------------------------------- the codec and the projector
\* The collections given to the codec and to the projector: players of
\* names with ";", "=", spaces and quotes, on the bench, on a team that is
\* in the team collection or not; up to MaxLen of them in any order.
Pool ==
  { [id |-> <<"p1">>, name |-> <<"z", ";", "y">>, color |-> paletteAt(0),
     teamId |-> null],
    [id |-> <<"p2">>, name |-> <<"y", "=", "\"">>, color |-> paletteAt(1),
     teamId |-> <<"alpha">>],
    [id |-> <<"p3">>, name |-> <<"y", " ", "z">>, color |-> paletteAt(2),
     teamId |-> <<"alpha">>],
    [id |-> <<"p4">>, name |-> <<"z", ";", "y">>, color |-> paletteAt(3),
     teamId |-> <<"ghost">>],
    [id |-> <<"p5">>, name |-> <<"\\", "%">>, color |-> paletteAt(4),
     teamId |-> null] }

\* The lists of n different players of the pool.
RECURSIVE Lists(_)
Lists(n) ==
  IF n = 0 THEN {<<>>}
  ELSE UNION {{Append(l, p) : p \in Pool \ Range(l)} : l \in Lists(n - 1)}

PlayerLists == UNION {Lists(n) : n \in 0..MaxLen}

TeamLists ==
  { <<>>,
    initialTeams,
    << [id |-> <<"alpha">>, name |-> <<"=", ";", " ", "\"">>,
        accent |-> paletteAt(5)] >> }

\* The application holding given collections, before it renders them.
InitPure ==
  /\ status = "unrendered"
  /\ players \in PlayerLists
  /\ teams \in TeamLists
  /\ view = <<>>
  /\ cookies = <<>>
  /\ hoveredZone = null
  /\ editing = NoEdit
  /\ seededPlayers = seedPlayers(1)
  /\ nextId = 1 + Len(SeedNames)
  /\ loads = 1
  /\ hist = NoHist

\* The render of the collections, and the effects after it.
FirstRender ==
  /\ status = "unrendered"
  /\ status' = "running"
  /\ Render(players, TRUE, teams, TRUE)
  /\ UNCHANGED <<hoveredZone, editing, seededPlayers, nextId, loads, hist>>

NextPure ==
  \/ FirstRender
  \/ Reload

SpecPure == InitPure /\ [][NextPure]_vars

\* ------------------------------------------------- claims under Spec
\* C1. Referential integrity: from the seed state on, after any sequence of
\* operations, the teamId of every player is null or the id of a team that
\* is in the team collection.
ReferentialIntegrity ==
  status = "running" =>
    \A i \in 1..Len(players) :
      \/ players[i].teamId = null
      \/ \E j \in 1..Len(teams) : teams[j].id = players[i].teamId

\* A team was removed, and a player is on a team.
ReferentialIntegrityWitness ==
  /\ \A j \in 1..Len(teams) : teams[j].id # <<"alpha">>
  /\ \E i \in 1..Len(players) : players[i].teamId # null

\* C2. Remove Team(t): the players that had teamId = t have teamId = null
\* and their id, name and color as before, every other player is as
\* before, the player collection keeps its length and order, and the team
\* collection is the one before without t, the others in their order.
RemoveTeamFrame ==
  [][\A i \in 1..Len(teams) :
       AtRest /\ handleRemoveTeam(teams[i].id) =>
         /\ Len(players') = Len(players)
         /\ \A k \in 1..Len(players) :
              players'[k] = IF players[k].teamId = teams[i].id
                            THEN [id |-> players[k].id,
                                  name |-> players[k].name,
                                  color |-> players[k].color,
                                  teamId |-> null]
                            ELSE players[k]
         /\ teams' = SubSeq(teams, 1, i - 1)
                     \o SubSeq(teams, i + 1, Len(teams))]_vars

\* A team that held a player was removed, other teams being left.
RemoveTeamFrameWitness ==
  hist.phase = "closed" /\ hist.on # {} /\ teams # <<>>

\* What the slot of the given name holds, decoded.
slotText(name) == getCookie(cookies, name)

BlankCreateRejected ==
  hist.phase = "rejected" => players = hist.players /\ teams = hist.teams

\* A blank name was submitted after the collections had changed.
BlankCreateRejectedWitness ==
  /\ hist.phase = "rejected"
  /\ players # seededPlayers
  /\ teams # initialTeams

\* C9. Rename Player and Rename Team with a new name that is empty after
\* trimming leave the name of the entity and both collections as they were,
\* and the entity is not being edited afterwards.
BlankRenameRejected ==
  hist.phase = "unrenamed" =>
    /\ players = hist.players
    /\ teams = hist.teams
    /\ editing = NoEdit

\* The editor of a player was submitted blank.
BlankRenameRejectedWitness ==
  /\ hist.phase = "unrenamed"
  /\ \E i \in 1..Len(players) : players[i].id = hist.id

\* C10, as amended.  Create Team, then any number of Move Player, then
\* Remove Team of the created team: the team collection is the one before
\* the creation, and every player that was on the created team when it was
\* removed has teamId = null.
CreateRemoveIdentity ==
  hist.phase = "closed" =>
    /\ teams = hist.teams
    /\ \A i \in 1..Len(players) :
         players[i].id \in hist.on => players[i].teamId = null

\* The created team was removed while it held a player.
CreateRemoveIdentityWitness ==
  /\ hist.phase = "closed"
  /\ hist.on # {}
  /\ \E i \in 1..Len(players) :
       players[i].id \in hist.on /\ players[i].teamId = null

\* C10, as claimed: ... and every player that was moved to the created team
\* in between has teamId = null.
CreateRemoveIdentityOfMoved ==
  hist.phase = "closed" =>
    /\ teams = hist.teams
    /\ \A i \in 1..Len(players) :
         players[i].id \in hist.moved => players[i].teamId = null

\* --------------------------------------------- claims under SpecPure
\* The players of list equal to p.
Count(list, p) == Cardinality({i \in 1..Len(list) : list[i] = p})

RECURSIVE SumLen(_, _)
SumLen(f, keys) ==
  IF keys = {} THEN 0
  ELSE LET k == CHOOSE x \in keys : TRUE
       IN  Len(f[k]) + SumLen(f, keys \ {k})

\* C4. The projection partitions the players: each player is in exactly
\* one bucket, the one keyed by its teamId, or by "bench" when its teamId is
\* null; no bucket holds what is not a player of the collection; the sizes
\* of the buckets add up to the number of players.
RosterPartitions ==
  status = "running" =>
    /\ \A i \in 1..Len(players) :
         LET key == IF players[i].teamId = null THEN <<"bench">>
                    ELSE players[i].teamId
         IN  /\ key \in DOMAIN view
             /\ \A k \in DOMAIN view :
                  Count(view[k], players[i]) = IF k = key THEN 1 ELSE 0
    /\ \A k \in DOMAIN view : Range(view[k]) \subseteq Range(players)
    /\ SumLen(view, DOMAIN view) = Len(players)

\* Players on the bench, on a team and on a team that is not in the
\* collection were projected.
RosterPartitionsWitness ==
  /\ status = "running"
  /\ \E k \in DOMAIN view :
       /\ k # <<"bench">>
       /\ \A j \in 1..Len(teams) : teams[j].id # k
       /\ view[k] # <<>>
  /\ \E k \in DOMAIN view :
       /\ \E j \in 1..Len(teams) : teams[j].id = k
       /\ view[k] # <<>>

\* C5. Every bucket of the projection is sorted ascending by name, whatever
\* the order of the players in the collection.
BucketsSorted ==
  status = "running" =>
    \A k \in DOMAIN view :
      \A i, j \in 1..Len(view[k]) :
        i < j => localeCompare(view[k][i].name, view[k][j].name) <= 0

\* A bucket holds two players in the other order than the collection does.
BucketsSortedWitness ==
  /\ status = "running"
  /\ \E k \in DOMAIN view :
       /\ Len(view[k]) = 2
       /\ view[k] # SelectSeq(players, LAMBDA p : p \in Range(view[k]))

\* C7. Serialization round trip: a load reads back from the slots the
\* collections that were written to them, element by element and in the
\* same order.
RoundTrip ==
  [][loads' = loads + 1 => players' = players /\ teams' = teams]_vars

\* Collections with ";", "=", spaces and quotes in their names were read
\* back.
RoundTripWitness ==
  /\ loads = 2
  /\ \E i \in 1..Len(players) : ";" \in Range(players[i].name)
  /\ \E i \in 1..Len(players) : "\"" \in Range(players[i].name)
  /\ \E j \in 1..Len(teams) : {"=", " "} \subseteq Range(teams[j].name)

\* ---------------------------------------------- claims under SpecLoad
\* The slot of the given name is absent from the store the page loads over.
absent(name) == \A i \in 1..Len(cookies) : cookies[i].name # name

\* The text of the slot of the given name.
textOf(name) ==
  cookies[CHOOSE i \in 1..Len(cookies) : cookies[i].name = name].value

\* The slot is absent, or its text cannot be decoded or is no JSON text.
unparseable(name) ==
  \/ absent(name)
  \/ textOf(name) = <<>>
  \/ ~decodeURIComponent(textOf(name)).ok
  \/ ~JSONparse(decodeURIComponent(textOf(name)).val).ok

\* The value of a parseable slot.
parsedOf(name) == JSONparse(decodeURIComponent(textOf(name)).val).val

\* C8. Load fallback: at the load, for each slot independently, if the
\* slot is absent or its text is not parseable, the collection is
\* initialized to the seed and no error state is reached; if the slot is
\* present and parseable, the parsed value is used.
LoadFallback ==
  [][status = "unloaded" =>
       /\ unparseable(<<"players">>) =>
            /\ players' = seededPlayers'
            /\ Len(players') = 13
            /\ \A i \in 1..Len(players') : players'[i].teamId = null
       /\ unparseable(<<"teams">>) =>
            /\ teams' = initialTeams
            /\ <<teams'[1].id, teams'[2].id>> = << <<"alpha">>, <<"bravo">> >>
       /\ unparseable(<<"players">>) /\ unparseable(<<"teams">>) =>
            status' = "running"
       /\ ~unparseable(<<"players">>)
            /\ isArrayOfObjects(parsedOf(<<"players">>)) =>
            players' = arrayOf(parsedOf(<<"players">>))
       /\ ~unparseable(<<"teams">>)
            /\ isArrayOfObjects(parsedOf(<<"teams">>)) =>
            teams' = arrayOf(parsedOf(<<"teams">>))]_vars

\* ------------------------------------------ further claims under Spec
\* C11. Reset: when the user confirms, the player collection becomes the
\* seed players (13 players, all with teamId null) and the team collection
\* the seed teams (alpha, bravo), whatever the state before, and after the
\* persistence write both slots hold the seed snapshots; when the user
\* declines, players, teams and the slots are as before.
ResetRestoresSeed ==
  [][AtRest =>
       /\ handleReset(TRUE) =>
            /\ players' = seededPlayers
            /\ Len(players') = 13
            /\ \A i \in 1..Len(players') : players'[i].teamId = null
            /\ [i \in 1..Len(players') |-> players'[i].name]
                 = [i \in 1..Len(SeedNames) |-> <<SeedNames[i]>>]
            /\ teams' = initialTeams
            /\ [j \in 1..Len(teams') |-> teams'[j].id]
                 = << <<"alpha">>, <<"bravo">> >>
            /\ getCookie(cookies', <<"players">>)
                 = [ok |-> TRUE, val |-> stringifyArray(seededPlayers, PlayerKeys)]
            /\ getCookie(cookies', <<"teams">>)
                 = [ok |-> TRUE, val |-> stringifyArray(initialTeams, TeamKeys)]
       /\ handleReset(FALSE) =>
            /\ players' = players
            /\ teams' = teams
            /\ getCookie(cookies', <<"players">>) = slotText(<<"players">>)
            /\ getCookie(cookies', <<"teams">>) = slotText(<<"teams">>)]_vars

\* The collections are the seed of a load that read other players from the
\* slots: only a confirmed reset after that load leads here.
ResetRestoresSeedWitness ==
  /\ status = "running"
  /\ loads > 1
  /\ players = seededPlayers
  /\ teams = initialTeams
  /\ slotText(<<"players">>).val = stringifyArray(seededPlayers, PlayerKeys)

\* C12. Id uniqueness: in every state reached from the seed by Create
\* Player, Create Team, Remove, Rename, Move and Reset (and reloads), no two
\* players have the same id and no two teams have the same id.
IdsUnique ==
  status = "running" =>
    /\ \A i, j \in 1..Len(players) :
         i # j => players[i].id # players[j].id
    /\ \A i, j \in 1..Len(teams) : i # j => teams[i].id # teams[j].id

\* A player was created after a seed player had been removed, and the page
\* was reloaded since.
IdsUniqueWitness ==
  /\ status = "running"
  /\ loads > 1
  /\ \E i \in 1..Len(players) : players[i].name = <<"z", ";">>
  /\ \A i \in 1..Len(players) : players[i].name # <<"Astra">>
  /\ Len(players) = 13

\* C13. From the seed state (13 players on the bench, teams alpha and
\* bravo), after the player named Astra is moved to alpha the projection
\* has the bucket alpha holding Astra only, the bucket bench holding the
\* other 12 seed players in alphabetical order of name, and the bucket
\* bravo, empty.
SeedMoveScenario ==
  [][\A a \in 1..Len(seededPlayers) :
       /\ status = "running"
       /\ players = seededPlayers
       /\ teams = initialTeams
       /\ seededPlayers[a].name = <<"Astra">>
       /\ handleDrop(seededPlayers[a].id, <<"alpha">>)
       => /\ DOMAIN view' = {<<"alpha">>, <<"bench">>, <<"bravo">>}
          /\ view'[<<"alpha">>]
               = << [seededPlayers[a] EXCEPT !.teamId = <<"alpha">>] >>
          /\ view'[<<"bravo">>] = <<>>
          /\ [i \in 1..Len(view'[<<"bench">>]) |->
                view'[<<"bench">>][i].name]
               = << <<"Blitz">>, <<"Cipher">>, <<"Draco">>, <<"Echo">>,
                    <<"Flux">>, <<"Gemini">>, <<"Halo">>, <<"Ion">>,
                    <<"Jinx">>, <<"Kairo">>, <<"Luna">>, <<"Metro">> >>
          /\ Range(view'[<<"bench">>])
               = Range(seededPlayers) \ {seededPlayers[a]}]_vars

\* The seed with Astra on alpha, after the first load.
SeedMoveScenarioWitness ==
  /\ status = "running"
  /\ loads = 1
  /\ teams = initialTeams
  /\ players = [seededPlayers EXCEPT ![1].teamId = <<"alpha">>]
  /\ players[1].name = <<"Astra">>
  /\ Len(view[<<"alpha">>]) = 1

\* The ids of the teams of a collection.
teamIds(ts) == {ts[j].id : j \in 1..Len(ts)}

\* The teamIds the players stored in the jar refer to.
storedRefs(jar) ==
  LET ps == initialState(jar, <<"players">>, <<>>).value
  IN  {ps[k].teamId : k \in 1..Len(ps)} \ {null}

\* The ids of the teams stored in the jar.
storedTeamIds(jar) == teamIds(initialState(jar, <<"teams">>, <<>>).value)

\* C14. Team removal is atomic with its cascade: the projection is always
\* computed on collections in which no player refers to a team that is
\* absent, and when a team leaves the team collection, the state after
\* that same step has no player with its id as teamId, neither in the
\* collections, nor in the projection, nor in the slots, be it after the
\* write of the players slot alone or after both writes.
RemovalAtomic ==
  [][status' = "running" =>
       /\ view' = roster(players', teams')
       /\ DOMAIN view' = {benchKey} \cup teamIds(teams')
       /\ \A i \in 1..Len(teams) :
            status = "running" /\ teams[i].id \notin teamIds(teams') =>
              /\ \A k \in 1..Len(players') :
                   players'[k].teamId # teams[i].id
              /\ teams[i].id \notin DOMAIN view'
              /\ storedRefs(cookies') \subseteq storedTeamIds(cookies')
              /\ storedRefs(persistPlayers(cookies, players'))
                   \subseteq storedTeamIds(persistPlayers(cookies, players'))]_vars

\* The created team was removed while it held a player, whom the bench
\* bucket of the projection now holds; no stored player refers to a team.
RemovalAtomicWitness ==
  /\ hist.phase = "closed"
  /\ \E k \in 1..Len(view[benchKey]) : view[benchKey][k].id \in hist.on
  /\ hist.id \notin DOMAIN view
  /\ storedRefs(cookies) = {}

\* C15. Rename frame: a successful Rename Player changes only the name of
\* the player with that id, to the trimmed new name; its id, color and
\* teamId, every other player, the order and length of the player
\* collection and the whole team collection are as before.  Rename Team
\* likewise changes only the name of the matching team, leaving its id and
\* accent, the other teams, their order and the player collection.
RenameFrame ==
  [][\A editName \in Typed :
       status = "running" /\ trim(editName) # <<>> =>
         /\ editing.kind = "player" /\ NametagSubmit(editName) =>
              /\ Len(players') = Len(players)
              /\ \A k \in 1..Len(players) :
                   players'[k] = IF players[k].id = editing.id
                                 THEN [id |-> players[k].id,
                                       name |-> trim(editName),
                                       color |-> players[k].color,
                                       teamId |-> players[k].teamId]
                                 ELSE players[k]
              /\ teams' = teams
         /\ editing.kind = "team" /\ TeamColumnSubmit(editName) =>
              /\ Len(teams') = Len(teams)
              /\ \A k \in 1..Len(teams) :
                   teams'[k] = IF teams[k].id = editing.id
                               THEN [id |-> teams[k].id,
                                     name |-> trim(editName),
                                     accent |-> teams[k].accent]
                               ELSE teams[k]
              /\ players' = players]_vars

\* A seed player that is on a team and a seed team have the typed name,
\* trimmed: both were renamed.
RenameFrameWitness ==
  /\ status = "running"
  /\ \E k \in 1..Len(players) :
       /\ players[k].id = seededPlayers[1].id
       /\ players[k].name = <<"z", ";">>
       /\ players[k].teamId # null
  /\ \E k \in 1..Len(teams) :
       teams[k].id = <<"alpha">> /\ teams[k].name = <<"z", ";">>

\* C16. Move frame: a drop that carries the player id p onto the zone of
\* team t, or of the bench (t = null), sets teamId of the player with id p
\* to t; that player's id, name and color, every other player, the order
\* and length of the player collection and the team collection are as
\* before.  A drop that carries no player id leaves both collections as
\* they were.
MoveFrame ==
  [][\A zone \in Zones, playerId \in Carried :
       Idle /\ onDrop(zone.teamId, playerId) =>
         /\ teams' = teams
         /\ Len(players') = Len(players)
         /\ \A k \in 1..Len(players) :
              players'[k] = IF playerId # <<>> /\ players[k].id = playerId
                            THEN [id |-> players[k].id,
                                  name |-> players[k].name,
                                  color |-> players[k].color,
                                  teamId |-> zone.teamId]
                            ELSE players[k]]_vars

\* A player was dropped on the created team and is on it, other players
\* standing behind it in the collection.
MoveFrameWitness ==
  /\ hist.phase = "open"
  /\ hist.moved # {}
  /\ \E k \in 1..Len(players) :
       /\ players[k].id \in hist.moved
       /\ players[k].teamId = hist.id
       /\ k < Len(players)

\* What an event of a zone leaves alone.
zoneOnly ==
  UNCHANGED <<players, teams, view, cookies, editing, seededPlayers, nextId,
              loads, status>>

\* C17. Hover highlight is transient: the entry of zone Z sets the hovered
\* zone to Z; after the exit of Z the hovered zone is not Z; after any
\* drop on any zone, whether or not the drag carries a player id, the
\* hovered zone is null.  The hovered zone is no part of what is written
\* to the slots: an entry or an exit writes nothing, and after a drop the
\* players slot holds the serialization of the players.
HoverTransient ==
  [][/\ \A zone \in Zones :
          Idle /\ zoneOnly =>
            /\ onDragEnter(zone.key) => hoveredZone' = zone.key
            /\ onDragLeave(zone.key) => hoveredZone' # zone.key
     /\ hist'.dropped =>
          /\ hoveredZone' = null
          /\ getCookie(cookies', <<"players">>).val
               = stringifyArray(players', PlayerKeys)]_vars

\* C18. Palette assignment: a successful Create Player appends, at the end
\* of the player collection, one player with teamId null whose color is
\* palette[n mod 8], n being the number of players just before, removals
\* counted; Create Team likewise appends one team whose accent is
\* palette[m mod 8], m being the number of teams just before.  The elements
\* there were are unchanged, in their order.
PaletteByCount ==
  [][\A typed \in Typed :
       AtRest /\ trim(typed) # <<>> =>
         /\ handleCreatePlayer(typed) =>
              /\ Len(players') = Len(players) + 1
              /\ SubSeq(players', 1, Len(players)) = players
              /\ players'[Len(players')].teamId = null
              /\ players'[Len(players')].name = trim(typed)
              /\ players'[Len(players')].color
                   = palette[(Len(players) % 8) + 1]
              /\ teams' = teams
         /\ handleCreateTeam(typed) =>
              /\ Len(teams') = Len(teams) + 1
              /\ SubSeq(teams', 1, Len(teams)) = teams
              /\ teams'[Len(teams')].name = trim(typed)
              /\ teams'[Len(teams')].accent = palette[(Len(teams) % 8) + 1]
              /\ players' = players]_vars

\* A team was created after one of the seed teams had been removed: it is
\* the second of the collection and has the second color of the palette.
PaletteByCountWitness ==
  /\ hist.phase = "open"
  /\ Len(teams) = 2
  /\ teams[2].id = hist.id
  /\ teams[2].accent = palette[2]
  /\ Len(hist.teams) = 1

\* The name is not empty and has no white space at its ends.
trimmedName(name) ==
  /\ name # <<>>
  /\ name[1] \notin WhiteSpace
  /\ name[Len(name)] \notin WhiteSpace

\* C19. Names stay trimmed and non-empty: in every state reached from the
\* seed by Create, Rename (by submit or by loss of focus), Remove, Move and
\* Reset with any text typed, every player name and every team name is
\* non-empty and has no leading or trailing white space.
NamesTrimmed ==
  status = "running" =>
    /\ \A i \in 1..Len(players) : trimmedName(players[i].name)
    /\ \A j \in 1..Len(teams) : trimmedName(teams[j].name)

\* A seed player and a seed team were renamed, and a team was created,
\* with a text typed with white space at both ends.
NamesTrimmedWitness ==
  /\ hist.phase = "open"
  /\ teams[Len(teams)].id = hist.id
  /\ teams[Len(teams)].name = trim(<<" ", "z", ";", " ">>)
  /\ teams[1].id = <<"alpha">> /\ teams[1].name = <<"z", ";">>
  /\ \E i \in 1..Len(players) :
       /\ players[i].id = seededPlayers[1].id
       /\ players[i].name = <<"z", ";">>

\* ---------------------------------------------- claims under SpecLoss
\* C20. Referential integrity survives load: the slots being written by
\* the program only, each at the last change of its collection, and each
\* being either present or lost at the load, in the state the load
\* initializes the teamId of every player is null or the id of a team of
\* the team collection, and every player is in the bench bucket or in the
\* bucket of a team of the collection.
IntegritySurvivesLoad ==
  [][loads' = loads + 1 /\ status' = "running" =>
       /\ \A i \in 1..Len(players') :
            players'[i].teamId \in {null} \cup teamIds(teams')
       /\ DOMAIN view' \subseteq {benchKey} \cup teamIds(teams')]_vars

====
